---------------------------- MODULE Spec2Model ----------------------------
(***************************************************************************)
(* The covariance driver of systematics/syscalc.py: main() unfolds the     *)
(* configured systematics against the reconstructed variables, calls one   *)
(* estimator per (systematic, variable) unit, stores the results in the    *)
(* dict `covariances`, adds the unit's matrix to the totals of its groups  *)
(* and rewrites the .npz checkpoint after every unit.                      *)
(*                                                                         *)
(* numpy arrays are records [shape, val] with integer entries.  Dict keys   *)
(* are strings, built by concatenation as the f-strings build them.        *)
(***************************************************************************)
EXTENDS Integers, Sequences, FiniteSets, TLC

\* ---------------------------------------------------------------- bounds
MaxGroupLen == 2    \* entries of one systematic's group list
NBins       == 2    \* bins of variable "c"; "c_cv" has 1 or NBins + 1 bins

\* name pools of the configurations explored; the names of a TOML table are
\* unique, so a configuration has at most one systematic per name
SysNames   == {"a", "statistical"}
GroupNames == {"a", "g"}
VarNames   == {"c", "c_cv"}
Types      == {"multisim", "detector", "stats", "other"}

\* the bin counts a variable is configured with
BinCounts(name) == IF name = "c" THEN {NBins} ELSE {1, NBins + 1}

\* the estimator-specific field of each systematic's configuration
Scale(name) == IF name = "a" THEN 1 ELSE 2

VARIABLES
    cfgsys,       \* cfg['sys']: sequence (dict order) of systematic configs
    variables,    \* cfg['general']['variables']: sequence of [name, bins]
    injected,     \* indices of the configs that hold 'cv_log' and 'channel'
    covariances,  \* the dict covariances: key -> array
    file,         \* the checkpoint {output}covariances_{channel}.npz
    pos,          \* position of the for loop in the list systematics
    pc,           \* "dispatch" | "group" | "save" | "done" | "error"
    err,          \* the exception that ended main, "" if none
    calls,        \* estimator calls made so far
    saves,        \* np.savez calls made so far
    pbar          \* the units the progress bar has described, in order

vars == <<cfgsys, variables, injected, covariances, file, pos, pc, err,
          calls, saves, pbar>>

\* ---------------------------------------------------------------- numpy
\* An array is [shape, val]: shape <<n>> with val a sequence of n numbers, or
\* shape <<r, c>> with val a sequence of r rows of c numbers.
Max(a, b) == IF a >= b THEN a ELSE b

\* the 1-d array of the n numbers val
Vector(n, val) == [shape |-> <<n>>, val |-> val]

\* the 2-d array of the r rows val, c numbers each
Matrix(r, c, val) == [shape |-> <<r, c>>, val |-> val]

\* np.zeros((n, n))
Zeros(n) == Matrix(n, n, [i \in 1..n |-> [j \in 1..n |-> 0]])

\* a shape padded on the left with 1 to two dimensions, as broadcasting does
Pad(shape) == IF Len(shape) = 1 THEN <<1, shape[1]>> ELSE shape

Broadcastable(x, y) ==
    \A d \in 1..2 : \/ Pad(x.shape)[d] = Pad(y.shape)[d]
                    \/ Pad(x.shape)[d] = 1
                    \/ Pad(y.shape)[d] = 1

\* the element of x that broadcasting puts at row i, column j
At(x, i, j) ==
    LET s  == Pad(x.shape)
        ii == IF s[1] = 1 THEN 1 ELSE i
        jj == IF s[2] = 1 THEN 1 ELSE j
    IN  IF Len(x.shape) = 1 THEN x.val[jj] ELSE x.val[ii][jj]

\* x + y of two broadcastable arrays
Add(x, y) ==
    LET r == Max(Pad(x.shape)[1], Pad(y.shape)[1])
        c == Max(Pad(x.shape)[2], Pad(y.shape)[2])
        sum1 == [j \in 1..c |-> At(x, 1, j) + At(y, 1, j)]
        sum2 == [i \in 1..r |-> [j \in 1..c |-> At(x, i, j) + At(y, i, j)]]
    IN  IF Len(x.shape) = 1 /\ Len(y.shape) = 1
        THEN Vector(c, sum1)
        ELSE Matrix(r, c, sum2)

\* ---------------------------------------------------------------- dict
\* d[k] = v
Put(d, k, v) == [x \in DOMAIN d \cup {k} |-> IF x = k THEN v ELSE d[x]]

\* f'{sysname}_{sysvar}'
Key(name, var) == name \o "_" \o var

\* mutant of StatsKey: the stats branch stores under the systematic's name
StatsKeyOwnName(name, var) == name \o "_" \o var

\* f'statistical_{sysvar}', the key of the stats branch
StatsKey(name, var) == "statistical" \o "_" \o var

\* mutant of GroupKey: the group total is not kept per variable
GroupKeyNoVar(g, var) == g

\* gname = f'{g}_{sysvar}'
GroupKey(g, var) == g \o "_" \o var

\* mutant of Savez: entries already in the file are not rewritten
SavezKeepOld(old, cov) ==
    [exists |-> TRUE,
     data   |-> [k \in DOMAIN cov |->
                    IF old.exists /\ k \in DOMAIN old.data THEN old.data[k] ELSE cov[k]]]

\* np.savez(path, **cov) over the previous file `old`: a full rewrite
Savez(old, cov) == [exists |-> TRUE, data |-> cov]

\* ---------------------------------------------------------------- estimators
\* systools is not part of the sources: the estimators are deterministic
\* functions of their arguments returning arrays sized by the bin count.
CalcMultisimCovariance(syscfg, sysvar, n) ==
    Matrix(n, n, [i \in 1..n |-> [j \in 1..n |-> syscfg.scale * (i + j)]])

CalcStatisticalCovariance(syscfg, sysvar, n) ==
    Matrix(n, n, [i \in 1..n |-> [j \in 1..n |->
                     IF i = j THEN 10 * syscfg.scale + i ELSE 0]])

\* (central values, nominal variances, response matrix, covariance matrix)
CalcDetectorCovariance(syscfg, sysvar, n) ==
    LET c == [i \in 1..n |-> 20 + i]
        v == [i \in 1..n |-> 30 + syscfg.scale * i]
        r == [i \in 1..n |-> [j \in 1..n |-> IF i = j THEN 1 ELSE 0]]
        d == [i \in 1..n |-> [j \in 1..n |-> 40 * syscfg.scale + i * j]]
    IN  <<Vector(n, c), Vector(n, v), Matrix(n, n, r), Matrix(n, n, d)>>

\* ---------------------------------------------------------------- main
\* [(k, v, var) for k, v in cfg['sys'].items() for var in variables.keys()]
\* as pairs <<index into cfgsys, index into variables>>
\* mutant of Unfold: the variables form the outer loop
UnfoldVarMajor(k, m) ==
    [u \in 1..(k * m) |-> <<((u - 1) % k) + 1, ((u - 1) \div k) + 1>>]

RECURSIVE Unfold(_, _)
Unfold(k, m) ==
    IF k = 0 THEN <<>> ELSE Unfold(k - 1, m) \o [j \in 1..m |-> <<k, j>>]

systematics == Unfold(Len(cfgsys), Len(variables))

\* the loop variables of the current iteration
syscfg  == cfgsys[systematics[pos][1]]
sysname == syscfg.name
sysvar  == variables[systematics[pos][2]].name
nbins   == variables[systematics[pos][2]].bins

\* pbar.set_description(...); syscfg['cv_log'] = log; syscfg['channel'] = channel
Enter ==
    /\ pbar' = Append(pbar, systematics[pos])
    /\ injected' = injected \cup {systematics[pos][1]}

\* the for loop over syscfg['group'], from dict cov on: the dict it leaves
\* and the exception that ended it ("" if none)
RECURSIVE GroupTotals(_, _, _, _, _)
GroupTotals(cov, group, pkey, var, n) ==
    IF group = <<>> THEN [err |-> "", cov |-> cov]
    ELSE LET gname == GroupKey(Head(group), var)
             cur   == IF gname \in DOMAIN cov THEN cov[gname] ELSE Zeros(n)
         IN  IF pkey \notin DOMAIN cov
             THEN [err |-> "KeyError", cov |-> cov]
             ELSE IF ~Broadcastable(cur, cov[pkey])
             THEN [err |-> "ValueError: operands could not be broadcast", cov |-> cov]
             ELSE GroupTotals(Put(cov, gname, Add(cur, cov[pkey])),
                              Tail(group), pkey, var, n)

\* mutant of StoreDetector: the central values c and the response matrix r
\* are stored under each other's key
StoreDetectorSwapped(cov, name, var, res) ==
    Put(Put(Put(Put(cov, Key(name, var), res[4]),
                Key(name, var) \o "_cv", res[3]),
            Key(name, var) \o "_vnominal", res[2]),
        Key(name, var) \o "_rmatrix", res[1])

\* mutant of StoreDetector: the covariance matrix d is not stored
StoreDetectorNoCov(cov, name, var, res) ==
    Put(Put(Put(cov, Key(name, var) \o "_cv", res[1]),
            Key(name, var) \o "_vnominal", res[2]),
        Key(name, var) \o "_rmatrix", res[3])

\* what the detector branch stores
StoreDetector(cov, name, var, res) ==
    Put(Put(Put(Put(cov, Key(name, var), res[4]),
                Key(name, var) \o "_cv", res[1]),
            Key(name, var) \o "_vnominal", res[2]),
        Key(name, var) \o "_rmatrix", res[3])

\* ---------------------------------------------------------------- initial states
SeqsUpTo(S, n) == UNION {[1..k -> S] : k \in 0..n}

\* the sequences without repetition over the set S
Orders(S) == {s \in SeqsUpTo(S, Cardinality(S)) :
                 \A i, j \in 1..Len(s) : i # j => s[i] # s[j]}

GroupLists == SeqsUpTo(GroupNames, MaxGroupLen)

Init ==
    /\ \E names \in Orders(SysNames) :
          \E types \in [1..Len(names) -> Types] :
            \E groups \in [1..Len(names) -> GroupLists] :
              cfgsys = [i \in 1..Len(names) |->
                           [name |-> names[i], type |-> types[i],
                            group |-> groups[i], scale |-> Scale(names[i])]]
    /\ \E names \in Orders(VarNames) :
          \E bins \in [1..Len(names) -> 1..(NBins + 1)] :
            /\ \A i \in 1..Len(names) : bins[i] \in BinCounts(names[i])
            /\ variables = [i \in 1..Len(names) |->
                               [name |-> names[i], bins |-> bins[i]]]
    /\ injected = {}
    /\ covariances = <<>>
    /\ file = [exists |-> FALSE, data |-> <<>>]
    /\ pos = 1
    /\ pc = IF Len(cfgsys) * Len(variables) = 0 THEN "done" ELSE "dispatch"
    /\ err = ""
    /\ calls = 0
    /\ saves = 0
    /\ pbar = <<>>

\* ---------------------------------------------------------------- actions
Multisim ==
    /\ pc = "dispatch"
    /\ syscfg.type = "multisim"
    /\ Enter
    /\ covariances' = Put(covariances, Key(sysname, sysvar),
                          CalcMultisimCovariance(syscfg, sysvar, nbins))
    /\ calls' = calls + 1
    /\ pc' = "group"
    /\ UNCHANGED <<cfgsys, variables, file, pos, err, saves>>

Detector ==
    /\ pc = "dispatch"
    /\ syscfg.type = "detector"
    /\ Enter
    /\ covariances' = StoreDetector(covariances, sysname, sysvar,
                                    CalcDetectorCovariance(syscfg, sysvar, nbins))
    /\ calls' = calls + 1
    /\ pc' = "group"
    /\ UNCHANGED <<cfgsys, variables, file, pos, err, saves>>

Stats ==
    /\ pc = "dispatch"
    /\ syscfg.type = "stats"
    /\ Enter
    /\ covariances' = Put(covariances, StatsKey(sysname, sysvar),
                          CalcStatisticalCovariance(syscfg, sysvar, nbins))
    /\ calls' = calls + 1
    /\ pc' = "group"
    /\ UNCHANGED <<cfgsys, variables, file, pos, err, saves>>

\* mutant of UnknownType: the unit is skipped instead of raising
UnknownTypeSkips ==
    /\ pc = "dispatch"
    /\ syscfg.type \notin {"multisim", "detector", "stats"}
    /\ Enter
    /\ pc' = "save"
    /\ UNCHANGED <<cfgsys, variables, covariances, file, pos, err, calls, saves>>

UnknownType ==
    /\ pc = "dispatch"
    /\ syscfg.type \notin {"multisim", "detector", "stats"}
    /\ Enter
    /\ err' = "ValueError: Unknown systematic type"
    /\ pc' = "error"
    /\ UNCHANGED <<cfgsys, variables, covariances, file, pos, calls, saves>>

\* an estimator raises: the exception leaves main
EstimatorRaises ==
    /\ pc = "dispatch"
    /\ syscfg.type \in {"multisim", "detector", "stats"}
    /\ Enter
    /\ calls' = calls + 1
    /\ err' = "estimator"
    /\ pc' = "error"
    /\ UNCHANGED <<cfgsys, variables, covariances, file, pos, saves>>

Groups ==
    /\ pc = "group"
    /\ LET r == GroupTotals(covariances, syscfg.group, Key(sysname, sysvar),
                            sysvar, nbins)
       IN  /\ covariances' = r.cov
           /\ err' = r.err
           /\ pc' = IF r.err = "" THEN "save" ELSE "error"
    /\ UNCHANGED <<cfgsys, variables, injected, file, pos, calls, saves, pbar>>

\* np.savez(f'{output}covariances_{channel}.npz', **covariances)
Checkpoint ==
    /\ pc = "save"
    /\ file' = Savez(file, covariances)
    /\ saves' = saves + 1
    /\ pos' = pos + 1
    /\ pc' = IF pos = Len(systematics) THEN "done" ELSE "dispatch"
    /\ UNCHANGED <<cfgsys, variables, injected, covariances, err, calls, pbar>>

Next ==
    \/ Multisim
    \/ Detector
    \/ Stats
    \/ UnknownType
    \/ EstimatorRaises
    \/ Groups
    \/ Checkpoint

Spec == Init /\ [][Next]_vars

\* ---------------------------------------------------------------- vocabulary
Known == {"multisim", "detector", "stats"}

Ended == pc \in {"done", "error"}

Range(s) == {s[i] : i \in 1..Len(s)}

\* the keys of unit (cfgsys[i], variables[j]), written out as the f-strings
\* of the source spell them
OwnKey(i, j)  == cfgsys[i].name \o "_" \o variables[j].name
StatKey(j)    == "statistical_" \o variables[j].name
PrimaryKey(i, j) == IF cfgsys[i].type = "stats" THEN StatKey(j) ELSE OwnKey(i, j)
DetectorKeys(i, j) ==
    {OwnKey(i, j) \o "_cv", OwnKey(i, j) \o "_vnominal", OwnKey(i, j) \o "_rmatrix"}
TotalKeys(i, j) == {g \o "_" \o variables[j].name : g \in Range(cfgsys[i].group)}

\* the unit the loop is at
CurSys == systematics[pos][1]
CurVar == systematics[pos][2]

\* ---------------------------------------------------------------- C2
\* C2: every completed unit ends with np.savez writing the whole current
\* mapping over the file, so at every unit boundary the file holds exactly
\* the in-memory mapping; no other step touches the file, so after a failure
\* in a unit the file is still what the previous unit's checkpoint wrote.
C2_CheckpointIsWholeMapping ==
    [][ /\ pc = "save" => /\ file' = [exists |-> TRUE, data |-> covariances]
                          /\ covariances' = covariances
                          /\ saves' = saves + 1
                          /\ pc' \in {"dispatch", "done"}
        /\ pc # "save" => file' = file /\ saves' = saves
        /\ pc' \in {"dispatch", "done"} =>
              file'.exists /\ file'.data = covariances' /\ saves' = pos' - 1
        /\ pc' = "error" => saves' = pos' - 1 ]_vars

\* a unit failed after it had changed the mapping: the file is the mapping of
\* the previous unit's checkpoint
C2_Witness ==
    /\ pc = "error"
    /\ saves >= 1
    /\ file.exists
    /\ file.data # covariances

\* ---------------------------------------------------------------- C3
\* C3: at a unit whose systematic has an unknown type main raises at once:
\* no estimator call, no change of the mapping, no checkpoint, and no step
\* follows the error, so the file keeps every entry of the earlier checkpoints.
C3_UnknownTypeAborts ==
    [][ /\ (pc = "dispatch" /\ syscfg.type \notin Known) =>
              /\ pc' = "error"
              /\ err' = "ValueError: Unknown systematic type"
              /\ calls' = calls
              /\ covariances' = covariances
              /\ file' = file
              /\ saves' = saves
              /\ pos' = pos
        /\ pc # "error" ]_vars

\* the unknown type is met after earlier units were checkpointed
C3_Witness ==
    /\ pc = "error"
    /\ err = "ValueError: Unknown systematic type"
    /\ saves >= 1
    /\ DOMAIN file.data # {}

\* ---------------------------------------------------------------- C9
\* C9: the enumeration holds every (systematic, variable) pair exactly once,
\* |systematics| * |variables| units, systematic-major; the units are
\* processed one after another in that order; the run ends, either done after
\* all units with one checkpoint each, or at the first unit that raises, with
\* every unit before it checkpointed and none after it started.
C9_Safety ==
    LET k == Len(cfgsys)
        m == Len(variables)
    IN  /\ Len(systematics) = k * m
        /\ \A i \in 1..k : \A j \in 1..m : systematics[(i - 1) * m + j] = <<i, j>>
        /\ pos \in 1..(k * m + 1)
        /\ pbar = SubSeq(systematics, 1, Len(pbar))
        /\ Len(pbar) = IF pc = "dispatch" \/ pc = "done" THEN pos - 1 ELSE pos
        /\ saves = pos - 1
        /\ calls <= Len(pbar)
        /\ pc = "done"  => pos = k * m + 1 /\ err = ""
        /\ pc = "error" => pos <= k * m /\ err # ""
        /\ pc \notin {"done", "error"} => pos <= k * m /\ err = ""

\* steps left before main returns, at most: three per unit still to process
Rank ==
    IF Ended THEN 0
    ELSE 3 * (Len(systematics) + 1 - pos)
         - (IF pc = "group" THEN 1 ELSE IF pc = "save" THEN 2 ELSE 0)

\* main is not stuck: at a dispatch or a checkpoint some branch can be taken
\* (the group loop, a total function of the mapping, always yields a state)
Runs ==
    \/ Ended
    \/ pc = "group"
    \/ ENABLED (Multisim \/ Detector \/ Stats \/ UnknownType \/ Checkpoint)

C9_RunsInOrderAndEnds ==
    /\ Runs
    /\ [][ /\ C9_Safety /\ C9_Safety'
           /\ Runs'
           /\ Rank' >= 0 /\ Rank' < Rank ]_vars

\* a full run over two systematics and two variables
C9_Witness ==
    /\ pc = "done"
    /\ saves = 4
    /\ pbar = <<<<1, 1>>, <<1, 2>>, <<2, 1>>, <<2, 2>>>>

\* ---------------------------------------------------------------- C7
\* the dispatch of the current unit has stored exactly the entries `new`
\* (key -> array) and made one estimator call
Stored(new) ==
    /\ calls' = calls + 1
    /\ DOMAIN covariances' = DOMAIN covariances \cup DOMAIN new
    /\ \A k \in DOMAIN covariances' :
          covariances'[k] = IF k \in DOMAIN new THEN new[k] ELSE covariances[k]

Entry(k, x) == [y \in {k} |-> x]

\* dict union, the entries of e winning
Merge(d, e) == [k \in DOMAIN d \cup DOMAIN e |-> IF k \in DOMAIN e THEN e[k] ELSE d[k]]

MultisimStores ==
    Stored(Entry(OwnKey(CurSys, CurVar),
                 CalcMultisimCovariance(syscfg, sysvar, nbins)))

DetectorStores ==
    LET res == CalcDetectorCovariance(syscfg, sysvar, nbins)
        own == OwnKey(CurSys, CurVar)
    IN  /\ Cardinality({own, own \o "_cv", own \o "_vnominal", own \o "_rmatrix"}) = 4
        /\ Stored(Merge(Merge(Entry(own, res[4]), Entry(own \o "_cv", res[1])),
                        Merge(Entry(own \o "_vnominal", res[2]),
                              Entry(own \o "_rmatrix", res[3]))))

StatsStores ==
    Stored(Entry(StatKey(CurVar), CalcStatisticalCovariance(syscfg, sysvar, nbins)))

\* nothing is stored under f'{sysname}_{sysvar}'
OwnKeyUntouched ==
    LET own == OwnKey(CurSys, CurVar)
    IN  /\ own \in DOMAIN covariances' <=> own \in DOMAIN covariances
        /\ own \in DOMAIN covariances => covariances'[own] = covariances[own]

Dispatched == pc = "dispatch" /\ pc' = "group"

\* C7 as claimed: a stats unit stores one matrix under statistical_{v} and
\* nothing under {s}_{v}, whatever the systematic is called.
C7_StatsLeavesOwnKey ==
    [][ /\ (Dispatched /\ syscfg.type = "multisim") => MultisimStores
        /\ (Dispatched /\ syscfg.type = "detector") => DetectorStores
        /\ (Dispatched /\ syscfg.type = "stats") => StatsStores /\ OwnKeyUntouched ]_vars

\* C7, amended: a multisim unit stores one matrix under {s}_{v}; a detector
\* unit stores d, c, v, r under the four distinct keys {s}_{v}, {s}_{v}_cv,
\* {s}_{v}_vnominal, {s}_{v}_rmatrix; a stats unit stores one matrix under
\* statistical_{v}, and nothing under {s}_{v} unless s is "statistical", where
\* the two keys are one; every unit makes exactly one estimator call.
C7_DispatchStores ==
    [][ /\ (Dispatched /\ syscfg.type = "multisim") => MultisimStores
        /\ (Dispatched /\ syscfg.type = "detector") => DetectorStores
        /\ (Dispatched /\ syscfg.type = "stats") =>
              /\ StatsStores
              /\ sysname # "statistical" => OwnKeyUntouched
              /\ sysname = "statistical" => OwnKey(CurSys, CurVar) = StatKey(CurVar)
        /\ (pc = "dispatch" /\ pc' = "error") => calls' \in {calls, calls + 1}
        /\ pc # "dispatch" => calls' = calls ]_vars

\* a run that dispatched a detector unit, and a stats unit of a systematic not
\* called "statistical", each storing its entries
C7_Witness ==
    /\ pc = "group"
    /\ syscfg.type = "stats"
    /\ sysname # "statistical"
    /\ StatKey(CurVar) \in DOMAIN covariances
    /\ OwnKey(CurSys, CurVar) \notin DOMAIN covariances
    /\ \E i \in 1..Len(cfgsys) :
          /\ cfgsys[i].type = "detector"
          /\ DetectorKeys(i, CurVar) \subseteq DOMAIN covariances

\* ---------------------------------------------------------------- C10
\* the keys unit u may write: its own entries and its group totals
WrittenKeysAt(u) ==
    LET i == systematics[u][1]
        j == systematics[u][2]
    IN  {PrimaryKey(i, j)}
        \cup (IF cfgsys[i].type = "detector" THEN DetectorKeys(i, j) ELSE {})
        \cup TotalKeys(i, j)

WrittenKeys == WrittenKeysAt(pos)

\* the entries of the units completed before unit pos
EarlierKeys ==
    UNION {{PrimaryKey(systematics[u][1], systematics[u][2])}
           \cup (IF cfgsys[systematics[u][1]].type = "detector"
                 THEN DetectorKeys(systematics[u][1], systematics[u][2]) ELSE {})
           : u \in 1..(pos - 1)}

KeysGrow ==
    /\ DOMAIN covariances \subseteq DOMAIN covariances'
    /\ DOMAIN file.data \subseteq DOMAIN file'.data

\* C10 as claimed: no unit changes the value of an entry of a completed unit.
C10_EarlierEntriesKept ==
    [][ /\ KeysGrow
        /\ \A k \in EarlierKeys \cap DOMAIN file.data : file'.data[k] = file.data[k] ]_vars

\* C10, amended: the key sets of the mapping and of the file never shrink, and
\* a unit changes only its own entries and the totals {g}_{v} of its own
\* variable and groups; an entry of a completed unit keeps its value unless
\* its key is one of those (two stats systematics share statistical_{v}; a
\* group called like a systematic shares its key; {s}_{v}_cv of variable v is
\* {s}_{v_cv} of a variable v_cv).
C10_UnitWritesOwnKeysOnly ==
    [][ /\ KeysGrow
        /\ ~Ended =>
              /\ \A k \in DOMAIN covariances \ WrittenKeys :
                    covariances'[k] = covariances[k]
              /\ \A k \in DOMAIN file.data \ WrittenKeys : file'.data[k] = file.data[k]
              /\ DOMAIN covariances' \subseteq DOMAIN covariances \cup WrittenKeys
              /\ DOMAIN file'.data \subseteq DOMAIN file.data \cup WrittenKeys ]_vars

\* the second unit's checkpoint kept the first unit's entry and added to the
\* total of a group both belong to
C10_Witness ==
    /\ saves >= 2
    /\ pos >= 3
    /\ \E k \in EarlierKeys \cap DOMAIN file.data : k \notin WrittenKeysAt(pos - 1)
    /\ \E g \in GroupNames :
          /\ g \in Range(cfgsys[systematics[1][1]].group)
          /\ g \in Range(cfgsys[systematics[pos - 1][1]].group)
          /\ systematics[1][1] # systematics[pos - 1][1]
          /\ systematics[1][2] = systematics[pos - 1][2]

\* ---------------------------------------------------------------- C4
AllUnits == (1..Len(cfgsys)) \X (1..Len(variables))

PrimaryKeys == {PrimaryKey(u[1], u[2]) : u \in AllUnits}

\* C4 as claimed: after a full run the file holds at least k * m primary
\* entries, one distinct primary key per unit.
C4_AtLeastOneKeyPerUnit ==
    pc = "done" =>
        Cardinality(PrimaryKeys \cap DOMAIN file.data) >= Len(cfgsys) * Len(variables)

\* C4, amended: after a full run the file holds the primary key of every unit
\* ({s}_{v}, or statistical_{v} for a stats systematic), the three further
\* keys of every detector unit and the total of every group of every unit;
\* these are at least k * m primary entries when the primary keys of the
\* units are pairwise distinct, and fewer when units share one (all stats
\* systematics share statistical_{v}).
C4_EveryUnitHasItsKeys ==
    pc = "done" =>
        /\ \A u \in AllUnits :
              /\ PrimaryKey(u[1], u[2]) \in DOMAIN file.data
              /\ TotalKeys(u[1], u[2]) \subseteq DOMAIN file.data
              /\ cfgsys[u[1]].type = "detector" =>
                    DetectorKeys(u[1], u[2]) \subseteq DOMAIN file.data
        /\ Cardinality(PrimaryKeys) = Cardinality(AllUnits) =>
              Cardinality(PrimaryKeys \cap DOMAIN file.data)
                  >= Len(cfgsys) * Len(variables)
        /\ Cardinality(PrimaryKeys \cap DOMAIN file.data) <= Len(cfgsys) * Len(variables)

\* a full run of a detector and a stats systematic over two variables
C4_Witness ==
    /\ pc = "done"
    /\ Len(variables) = 2
    /\ {cfgsys[i].type : i \in 1..Len(cfgsys)} = {"detector", "stats"}
    /\ Cardinality(PrimaryKeys \cap DOMAIN file.data) = 4

\* ---------------------------------------------------------------- C5
Square(n) == <<n, n>>

KnownSys == {i \in 1..Len(cfgsys) : cfgsys[i].type \in Known}

\* C5 as claimed: every entry of variable v, the detector sub-products
\* included, is a square matrix of side v's bin count.
C5_AllEntriesSquare ==
    \A d \in {covariances, file.data} :
      \A i \in 1..Len(cfgsys) : \A j \in 1..Len(variables) :
        \A k \in ({OwnKey(i, j), StatKey(j)} \cup TotalKeys(i, j)
                  \cup (IF cfgsys[i].type = "detector" THEN DetectorKeys(i, j) ELSE {}))
                 \cap DOMAIN d :
            d[k].shape = Square(variables[j].bins)

\* the shapes the configuration gives key k: those of the entries stored
\* under k, and of the entry the group loop of a stats unit reads as k
Shapes(k) ==
    {Square(variables[j].bins) : j \in {j \in 1..Len(variables) :
        \E i \in KnownSys :
            \/ cfgsys[i].type # "stats" /\ k = OwnKey(i, j)
            \/ cfgsys[i].type = "stats" /\ k = StatKey(j)
            \/ cfgsys[i].type = "stats" /\ cfgsys[i].group # <<>> /\ k = OwnKey(i, j)
            \/ cfgsys[i].type = "detector" /\ k = OwnKey(i, j) \o "_rmatrix"
            \/ k \in TotalKeys(i, j)}}
    \cup
    {<<variables[j].bins>> : j \in {j \in 1..Len(variables) :
        \E i \in KnownSys :
            /\ cfgsys[i].type = "detector"
            /\ k \in {OwnKey(i, j) \o "_cv", OwnKey(i, j) \o "_vnominal"}}}

FormedKeys ==
    UNION {{OwnKey(u[1], u[2]), StatKey(u[2])} \cup DetectorKeys(u[1], u[2])
           \cup TotalKeys(u[1], u[2]) : u \in AllUnits}

\* no key of the configuration stands for entries of two different shapes
ShapeConsistent == \A k \in FormedKeys : Cardinality(Shapes(k)) <= 1

\* C5, amended: the direct entries {s}_{v} and statistical_{v}, the group
\* totals {g}_{v} and the _rmatrix entries are square of side v's bin count,
\* and the _cv and _vnominal entries are vectors of that length, in every
\* state of the mapping and of the file, in the configurations where no key
\* is formed for two different shapes.
C5_EntriesHaveConfiguredShape ==
    \/ \A d \in {covariances, file.data} :
          \A k \in DOMAIN d : Shapes(k) = {d[k].shape}
    \/ ~ShapeConsistent

\* a checkpoint holding a detector unit of NBins bins with its vectors, its
\* matrices and a group total
C5_Witness ==
    /\ ShapeConsistent
    /\ file.exists
    /\ \E i \in 1..Len(cfgsys) : \E j \in 1..Len(variables) :
          /\ variables[j].bins = NBins
          /\ cfgsys[i].type = "detector"
          /\ DetectorKeys(i, j) \cup TotalKeys(i, j) \subseteq DOMAIN file.data
          /\ TotalKeys(i, j) # {}
          /\ file.data[OwnKey(i, j) \o "_cv"].shape = <<NBins>>
          /\ file.data[OwnKey(i, j) \o "_rmatrix"].shape = <<NBins, NBins>>

\* ---------------------------------------------------------------- C1
\* the primary covariance matrix of systematic i for variable j
Primary(i, j) ==
    LET cfg == cfgsys[i]
        var == variables[j].name
        n   == variables[j].bins
    IN  CASE cfg.type = "multisim" -> CalcMultisimCovariance(cfg, var, n)
          [] cfg.type = "detector" -> CalcDetectorCovariance(cfg, var, n)[4]
          [] OTHER                 -> CalcStatisticalCovariance(cfg, var, n)

Members(g) == {i \in 1..Len(cfgsys) : g \in Range(cfgsys[i].group)}

RECURSIVE SumOfPrimaries(_, _)
SumOfPrimaries(S, j) ==
    IF S = {} THEN Zeros(variables[j].bins)
    ELSE LET i == CHOOSE x \in S : TRUE
         IN  Add(SumOfPrimaries(S \ {i}, j), Primary(i, j))

\* C1: after a full run the value under {g}_{v} is the elementwise sum of the
\* primary covariance matrices, for v, of exactly the systematics whose group
\* list contains g, in whatever order the systematics were processed.
C1_GroupTotalIsSumOfMembers ==
    pc = "done" =>
        \A g \in GroupNames : \A j \in 1..Len(variables) :
            Members(g) # {} =>
                /\ (g \o "_" \o variables[j].name) \in DOMAIN file.data
                /\ file.data[g \o "_" \o variables[j].name] = SumOfPrimaries(Members(g), j)

\* ---------------------------------------------------------------- C6
\* the group list of the current unit names each group once, and no total
\* shares its key with an entry of the unit
PlainGroups ==
    /\ Cardinality(Range(syscfg.group)) = Len(syscfg.group)
    /\ TotalKeys(CurSys, CurVar) \cap
           ({OwnKey(CurSys, CurVar), StatKey(CurVar)} \cup DetectorKeys(CurSys, CurVar)) = {}

\* C6: a unit of any recognized type, stats included, completes its group
\* loop, adding the primary matrix computed in the unit (for stats the one
\* stored under statistical_{v}) to the total of each of its groups, from a
\* zero matrix where the total did not exist.
C6_UnitAddsPrimaryToItsGroups ==
    [][ (pc = "group" /\ PlainGroups) =>
            /\ pc' = "save"
            /\ \A k \in TotalKeys(CurSys, CurVar) :
                  /\ k \in DOMAIN covariances'
                  /\ covariances'[k] =
                        Add(IF k \in DOMAIN covariances THEN covariances[k]
                                                        ELSE Zeros(nbins),
                            covariances[PrimaryKey(CurSys, CurVar)]) ]_vars

\* ---------------------------------------------------------------- C8
\* C8: one multisim systematic s in one group g, one variable v of n bins:
\* the file of the finished run has exactly the keys {s}_{v} and {g}_{v},
\* both n x n, with equal values.
C8_OneUnitOneGroup ==
    (/\ pc = "done"
     /\ Len(cfgsys) = 1
     /\ Len(variables) = 1
     /\ cfgsys[1].type = "multisim"
     /\ Len(cfgsys[1].group) = 1) =>
        LET skey == OwnKey(1, 1)
            gkey == cfgsys[1].group[1] \o "_" \o variables[1].name
        IN  /\ DOMAIN file.data = {skey, gkey}
            /\ Cardinality(DOMAIN file.data) = 2
            /\ file.data[skey].shape = Square(variables[1].bins)
            /\ file.data[gkey].shape = Square(variables[1].bins)
            /\ file.data[gkey] = file.data[skey]

=============================================================================
